---- MODULE Spec2Model ----
(***************************************************************************)
(* Model of development/nautobot_config.py, the settings module of the     *)
(* cookiecutter Nautobot app template.  The module is a straight-line      *)
(* script: each conditional block of the script is one action, taken in    *)
(* source order under the program counter pc.  Re-executing the module     *)
(* (Rerun) rebinds PLUGINS, PLUGINS_CONFIG and the base LOGGING to the     *)
(* very objects the previous execution mutated in place.                   *)
(***************************************************************************)
EXTENDS Integers, Sequences, FiniteSets, TLC

VARIABLES
    env,                    \* os.environ of the current execution
    testing,                \* sys.argv[1] == "test"
    pc,                     \* the block about to execute
    run,                    \* number of the current execution of the module
    bound,                  \* module-level names bound so far (locals())
    DEBUG, ALLOWED_HOSTS, DATABASES,
    loggers,                \* LOGGING["loggers"]
    PLUGINS, PLUGINS_CONFIG, AUTH_LDAP_USER_SEARCH,
    start,                  \* start[r]: PLUGINS, PLUGINS_CONFIG and loggers when execution r began
    prevEnv                 \* os.environ of the previous execution

vars == <<env, testing, pc, run, bound, DEBUG, ALLOWED_HOSTS, DATABASES, loggers,
          PLUGINS, PLUGINS_CONFIG, AUTH_LDAP_USER_SEARCH, start, prevEnv>>

(* ---------------------------- bounds ----------------------------------- *)
MaxRuns == 2
MaxPre == 2
MaxHostLen == 4
MaxDnLen == 4

(* ------------------------ names and values ----------------------------- *)
AppName == "cookiecutter_app_name"
DVE == "nautobot_data_validation_engine"
DevOnb == "nautobot_device_onboarding"
SSOT == "nautobot_ssot"
SecProv == "nautobot_secrets_providers"
LdapLogger == "django_auth_ldap"
Postgres == "django.db.backends.postgresql"
MySQL == "django.db.backends.mysql"

Unset == [set |-> FALSE]
Val(v) == [set |-> TRUE, val |-> v]
None == [kind |-> "None"]
EmptyMap == [k \in {} |-> k]

(* character strings are sequences of one-character strings *)
Whitespace == {" ", "\t"}

getenv(e, name, default) == IF e[name].set THEN e[name].val ELSE default

TruthyStrings == {"y", "yes", "t", "true", "on", "1", "True", "TRUE", "Yes", "YES"}

is_truthy_getenv(e, name) == e[name].set /\ e[name].val \in TruthyStrings

(* dict.update({k: v}) *)
update(m, k, v) == [x \in (DOMAIN m) \cup {k} |-> IF x = k THEN v ELSE m[x]]

Range(s) == {s[i] : i \in 1..Len(s)}

(* str.replace(old, new) for one-character old and new *)
replace(s, old, new) == [i \in 1..Len(s) |-> IF s[i] = old THEN new ELSE s[i]]

(* str.split(sep) for a one-character sep: empty fields are kept *)
RECURSIVE split(_, _)
split(s, sep) ==
    IF \A i \in 1..Len(s) : s[i] # sep
    THEN <<s>>
    ELSE LET i == CHOOSE i \in 1..Len(s) : s[i] = sep /\ \A j \in 1..(i-1) : s[j] # sep
         IN  <<SubSeq(s, 1, i-1)>> \o split(SubSeq(s, i+1, Len(s)), sep)

(* variant of strip: only leading whitespace removed (str.lstrip) *)
RECURSIVE strip_leading_only(_)
strip_leading_only(s) ==
    IF s = <<>> THEN s
    ELSE IF s[1] \in Whitespace THEN strip_leading_only(Tail(s))
    ELSE s

(* str.strip(): leading and trailing whitespace removed *)
RECURSIVE strip(_)
strip(s) ==
    IF s = <<>> THEN s
    ELSE IF s[1] \in Whitespace THEN strip(Tail(s))
    ELSE IF s[Len(s)] \in Whitespace THEN strip(SubSeq(s, 1, Len(s)-1))
    ELSE s

(* ------------------------- pure derivations ---------------------------- *)

(* line 36 *)
allowed_hosts(e) == split(replace(getenv(e, "NAUTOBOT_ALLOWED_HOSTS", <<>>), ",", " "), " ")

(* variant of default_db_settings: unknown engines fall back to the PostgreSQL port *)
default_db_settings_with_fallback ==
    [eng \in {Postgres, MySQL, "django.db.backends.sqlite3", "mysql"} |->
        [NAUTOBOT_DB_PORT |-> IF eng = MySQL THEN "3306" ELSE "5432"]]

(* lines 62-69 *)
default_db_settings ==
    [eng \in {Postgres, MySQL} |->
        [NAUTOBOT_DB_PORT |-> IF eng = Postgres THEN "5432" ELSE "3306"]]

nautobot_db_engine(e) == getenv(e, "NAUTOBOT_DB_ENGINE", Postgres)

(* lines 70-86; evaluated only when the default lookup succeeds *)
databases(e) ==
    LET eng == nautobot_db_engine(e)
        dflt == [PORT |-> getenv(e, "NAUTOBOT_DB_PORT", default_db_settings[eng].NAUTOBOT_DB_PORT),
                 ENGINE |-> eng]
    IN  [default |-> IF eng = MySQL THEN update(dflt, "OPTIONS", [charset |-> "utf8mb4"]) ELSE dflt]

(* line 125 *)
LOG_LEVEL(debug) == IF debug THEN "DEBUG" ELSE "INFO"

(* lines 154-160 *)
fresh_loggers(debug) ==
    [n \in {"django", "nautobot"} |->
        IF n = "django"
        THEN [handlers |-> <<"normal_console">>, level |-> "INFO"]
        ELSE [handlers |-> <<IF debug THEN "verbose_console" ELSE "normal_console">>,
              level |-> LOG_LEVEL(debug)]]

(* lines 213-218 *)
app_logger(debug) ==
    [handlers |-> <<IF debug THEN "verbose_console" ELSE "normal_console">>,
     level |-> LOG_LEVEL(debug)]

(* lines 295-300 *)
ldap_logger(debug) == [handlers |-> <<"normal_console">>, level |-> LOG_LEVEL(debug)]

(* lines 331-338 *)
LDAPSearch(base_dn) == [base_dn |-> base_dn, scope |-> "SCOPE_SUBTREE",
                        filterstr |-> "(sAMAccountName=%(user)s)"]

user_search(e) ==
    LET dn == getenv(e, "NAUTOBOT_AUTH_LDAP_USER_SEARCH_DN", <<>>)
    IN  IF e["NAUTOBOT_AUTH_LDAP_USER_SEARCH_DN"].set /\ dn # <<>>
        THEN LET user_search_dn_list == split(dn, ";")
             IN  [kind |-> "LDAPSearchUnion",
                  searches |-> [i \in 1..Len(user_search_dn_list) |->
                                   LDAPSearch(strip(user_search_dn_list[i]))]]
        ELSE None

(* lines 262-264 *)
onboarding_settings_1 ==
    [default_device_role_color |-> "0000FF",
     default_device_role |-> "edge-switch",
     skip_device_type_on_update |-> TRUE]

(* lines 435-438 *)
onboarding_settings_2 ==
    [default_device_role_color |-> "0000FF",
     default_device_role |-> "edge-switch",
     skip_device_type_on_update |-> TRUE,
     skip_manufacturer_on_update |-> TRUE]

(* lines 459-481; an absent SECRET_SERVER_BASE_URL gives None, written "None" *)
thycotic_seetings(e) ==
    [base_url |-> getenv(e, "SECRET_SERVER_BASE_URL", "None"),
     cloud_based |-> is_truthy_getenv(e, "SECRET_SERVER_IS_CLOUD_BASED"),
     tenant |-> getenv(e, "SECRET_SERVER_TENANT", ""),
     username |-> getenv(e, "SECRET_SERVER_USERNAME", ""),
     password |-> getenv(e, "SECRET_SERVER_PASSWORD", ""),
     token |-> getenv(e, "SECRET_SERVER_TOKEN", ""),
     domain |-> getenv(e, "SECRET_SERVER_DOMAIN", ""),
     ca_bundle_path |-> getenv(e, "REQUESTS_CA_BUNDLE", "")]

(* --------------------- effects of the plugin blocks -------------------- *)

(* variant of app_plugins: append without the membership check *)
app_plugins_unguarded(P) == Append(P, AppName)

(* lines 190-192 *)
app_plugins(P) == IF AppName \notin Range(P) THEN Append(P, AppName) ELSE P

(* lines 194-202 *)
app_config(C) == IF AppName \notin DOMAIN C THEN update(C, AppName, EmptyMap) ELSE C

(* lines 212-219 *)
app_loggers(L, debug) ==
    IF AppName \notin DOMAIN L THEN update(L, AppName, app_logger(debug)) ELSE L

(* lines 230-232: the append is guarded by PLUGINS_CONFIG *)
dve_plugins(P, C) == IF DVE \notin DOMAIN C THEN Append(P, DVE) ELSE P

(* lines 234-241 *)
dve_config(C) == IF DVE \notin DOMAIN C THEN update(C, DVE, EmptyMap) ELSE C

(* lines 252-254 *)
onboarding_plugins_1(P) == IF DevOnb \notin Range(P) THEN Append(P, DevOnb) ELSE P

(* variant of onboarding_config_1: the first block seeds nothing *)
onboarding_config_1_skipped(C) == C

(* lines 256-270 *)
onboarding_config_1(C) ==
    IF DevOnb \notin DOMAIN C THEN update(C, DevOnb, onboarding_settings_1) ELSE C

(* line 301: unguarded update *)
ldap_loggers(L, debug) == update(L, LdapLogger, ldap_logger(debug))

(* lines 413-414 *)
ssot_plugins(P) == IF SSOT \notin Range(P) THEN Append(P, SSOT) ELSE P

(* lines 416-417 *)
ssot_config(C) ==
    IF SSOT \notin DOMAIN C THEN update(C, SSOT, [hide_example_jobs |-> TRUE]) ELSE C

(* lines 428-429 *)
onboarding_plugins_2(P) == IF DevOnb \notin Range(P) THEN Append(P, DevOnb) ELSE P

(* variant of onboarding_config_2: update without the membership check *)
onboarding_config_2_unguarded(C) == update(C, DevOnb, onboarding_settings_2)

(* lines 431-441 *)
onboarding_config_2(C) ==
    IF DevOnb \notin DOMAIN C THEN update(C, DevOnb, onboarding_settings_2) ELSE C

(* lines 452-454 *)
secrets_plugins(P) == IF SecProv \notin Range(P) THEN Append(P, SecProv) ELSE P

(* variant of secrets_config: the thycotic entry is rebuilt on every execution *)
secrets_config_overwrite(C, e) ==
    IF SecProv \in DOMAIN C
    THEN update(C, SecProv, update(C[SecProv], "thycotic", thycotic_seetings(e)))
    ELSE update(C, SecProv, [thycotic |-> thycotic_seetings(e)])

(* lines 456-486 *)
secrets_config(C, e) ==
    IF SecProv \notin DOMAIN C \/ "thycotic" \notin DOMAIN C[SecProv]
    THEN IF SecProv \in DOMAIN C
         THEN update(C, SecProv, update(C[SecProv], "thycotic", thycotic_seetings(e)))
         ELSE update(C, SecProv, [thycotic |-> thycotic_seetings(e)])
    ELSE C

(* ------------------------------ actions -------------------------------- *)

(* lines 9-26 *)
Debug ==
    /\ pc = "debug"
    /\ DEBUG' = is_truthy_getenv(env, "NAUTOBOT_DEBUG")
    /\ pc' = "misc"
    /\ UNCHANGED <<env, testing, run, bound, ALLOWED_HOSTS, DATABASES, loggers,
                   PLUGINS, PLUGINS_CONFIG, AUTH_LDAP_USER_SEARCH, start, prevEnv>>

(* lines 36-55 *)
Misc ==
    /\ pc = "misc"
    /\ ALLOWED_HOSTS' = allowed_hosts(env)
    /\ bound' = bound \cup {"ALLOWED_HOSTS"}
    /\ pc' = "database"
    /\ UNCHANGED <<env, testing, run, DEBUG, DATABASES, loggers,
                   PLUGINS, PLUGINS_CONFIG, AUTH_LDAP_USER_SEARCH, start, prevEnv>>

(* variant of default_lookup_fails: the default is looked up only when     *)
(* NAUTOBOT_DB_PORT is absent                                              *)
default_lookup_fails_when_port_unset(e) ==
    ~e["NAUTOBOT_DB_PORT"].set /\ nautobot_db_engine(e) \notin DOMAIN default_db_settings

(* lines 76-78: the second argument of os.getenv is evaluated before the   *)
(* call, whether or not NAUTOBOT_DB_PORT is set                            *)
default_lookup_fails(e) == nautobot_db_engine(e) \notin DOMAIN default_db_settings

(* lines 61-86: the default port is looked up before os.getenv is called, *)
(* so an engine without an entry raises KeyError and execution stops      *)
Database ==
    /\ pc = "database"
    /\ IF ~default_lookup_fails(env)
       THEN /\ DATABASES' = databases(env)
            /\ bound' = bound \cup {"DATABASES"}
            /\ pc' = "logging"
       ELSE /\ pc' = "failed"
            /\ UNCHANGED <<DATABASES, bound>>
    /\ UNCHANGED <<env, testing, run, DEBUG, ALLOWED_HOSTS, loggers,
                   PLUGINS, PLUGINS_CONFIG, AUTH_LDAP_USER_SEARCH, start, prevEnv>>

(* lines 125-161 *)
Logging ==
    /\ pc = "logging"
    /\ loggers' = IF ~testing THEN fresh_loggers(DEBUG) ELSE loggers
    /\ pc' = "plugins_init"
    /\ UNCHANGED <<env, testing, run, bound, DEBUG, ALLOWED_HOSTS, DATABASES,
                   PLUGINS, PLUGINS_CONFIG, AUTH_LDAP_USER_SEARCH, start, prevEnv>>

(* lines 179-182 *)
PluginsInit ==
    /\ pc = "plugins_init"
    /\ PLUGINS' = IF "PLUGINS" \notin bound THEN <<>> ELSE PLUGINS
    /\ PLUGINS_CONFIG' = IF "PLUGINS_CONFIG" \notin bound THEN EmptyMap ELSE PLUGINS_CONFIG
    /\ bound' = bound \cup {"PLUGINS", "PLUGINS_CONFIG"}
    /\ pc' = "app"
    /\ UNCHANGED <<env, testing, run, DEBUG, ALLOWED_HOSTS, DATABASES, loggers,
                   AUTH_LDAP_USER_SEARCH, start, prevEnv>>

(* lines 188-219 *)
App ==
    /\ pc = "app"
    /\ IF is_truthy_getenv(env, "NAUTOBOT_APP_ENABLED")
       THEN /\ PLUGINS' = app_plugins(PLUGINS)
            /\ PLUGINS_CONFIG' = app_config(PLUGINS_CONFIG)
            /\ loggers' = app_loggers(loggers, DEBUG)
       ELSE UNCHANGED <<PLUGINS, PLUGINS_CONFIG, loggers>>
    /\ pc' = "dve"
    /\ UNCHANGED <<env, testing, run, bound, DEBUG, ALLOWED_HOSTS, DATABASES,
                   AUTH_LDAP_USER_SEARCH, start, prevEnv>>

(* lines 228-241 *)
DataValidationEngine ==
    /\ pc = "dve"
    /\ IF is_truthy_getenv(env, "NAUTOBOT_DATA_VALIDATION_ENGINE_ENABLED")
       THEN /\ PLUGINS' = dve_plugins(PLUGINS, PLUGINS_CONFIG)
            /\ PLUGINS_CONFIG' = dve_config(PLUGINS_CONFIG)
       ELSE UNCHANGED <<PLUGINS, PLUGINS_CONFIG>>
    /\ pc' = "onboarding"
    /\ UNCHANGED <<env, testing, run, bound, DEBUG, ALLOWED_HOSTS, DATABASES, loggers,
                   AUTH_LDAP_USER_SEARCH, start, prevEnv>>

(* lines 250-270 *)
DeviceOnboarding ==
    /\ pc = "onboarding"
    /\ IF is_truthy_getenv(env, "NAUTOBOT_DEVICE_ONBOARDING_ENABLED")
       THEN /\ PLUGINS' = onboarding_plugins_1(PLUGINS)
            /\ PLUGINS_CONFIG' = onboarding_config_1(PLUGINS_CONFIG)
       ELSE UNCHANGED <<PLUGINS, PLUGINS_CONFIG>>
    /\ pc' = "ldap"
    /\ UNCHANGED <<env, testing, run, bound, DEBUG, ALLOWED_HOSTS, DATABASES, loggers,
                   AUTH_LDAP_USER_SEARCH, start, prevEnv>>

(* lines 279-402 *)
Ldap ==
    /\ pc = "ldap"
    /\ IF /\ is_truthy_getenv(env, "NAUTOBOT_DJANGO_AUTH_LDAP_ENABLED")
          /\ env["NAUTOBOT_AUTH_LDAP_SERVER_URI"].set
          /\ env["NAUTOBOT_AUTH_LDAP_SERVER_URI"].val # ""
       THEN /\ loggers' = ldap_loggers(loggers, DEBUG)
            /\ AUTH_LDAP_USER_SEARCH' = user_search(env)
            /\ bound' = bound \cup {"AUTH_LDAP_USER_SEARCH"}
       ELSE UNCHANGED <<loggers, AUTH_LDAP_USER_SEARCH, bound>>
    /\ pc' = "ssot"
    /\ UNCHANGED <<env, testing, run, DEBUG, ALLOWED_HOSTS, DATABASES,
                   PLUGINS, PLUGINS_CONFIG, start, prevEnv>>

(* lines 411-417 *)
Ssot ==
    /\ pc = "ssot"
    /\ IF is_truthy_getenv(env, "NAUTOBOT_SSOT_ENABLED")
       THEN /\ PLUGINS' = ssot_plugins(PLUGINS)
            /\ PLUGINS_CONFIG' = ssot_config(PLUGINS_CONFIG)
       ELSE UNCHANGED <<PLUGINS, PLUGINS_CONFIG>>
    /\ pc' = "onboarding2"
    /\ UNCHANGED <<env, testing, run, bound, DEBUG, ALLOWED_HOSTS, DATABASES, loggers,
                   AUTH_LDAP_USER_SEARCH, start, prevEnv>>

(* lines 426-441 *)
DeviceOnboarding2 ==
    /\ pc = "onboarding2"
    /\ IF is_truthy_getenv(env, "NAUTOBOT_DEVICE_ONBOARDING_ENABLED")
       THEN /\ PLUGINS' = onboarding_plugins_2(PLUGINS)
            /\ PLUGINS_CONFIG' = onboarding_config_2(PLUGINS_CONFIG)
       ELSE UNCHANGED <<PLUGINS, PLUGINS_CONFIG>>
    /\ pc' = "secrets"
    /\ UNCHANGED <<env, testing, run, bound, DEBUG, ALLOWED_HOSTS, DATABASES, loggers,
                   AUTH_LDAP_USER_SEARCH, start, prevEnv>>

(* lines 450-486 *)
SecretsProviders ==
    /\ pc = "secrets"
    /\ IF is_truthy_getenv(env, "NAUTOBOT_SECRETS_PROVIDERS_ENABLED")
       THEN /\ PLUGINS' = secrets_plugins(PLUGINS)
            /\ PLUGINS_CONFIG' = secrets_config(PLUGINS_CONFIG, env)
       ELSE UNCHANGED <<PLUGINS, PLUGINS_CONFIG>>
    /\ pc' = "done"
    /\ UNCHANGED <<env, testing, run, bound, DEBUG, ALLOWED_HOSTS, DATABASES, loggers,
                   AUTH_LDAP_USER_SEARCH, start, prevEnv>>

(* re-execution of the module: "from nautobot.core.settings import *"      *)
(* (line 6) rebinds PLUGINS, PLUGINS_CONFIG and LOGGING to the objects the *)
(* previous execution appended to and updated in place                     *)
SecretUrls == {"https://tss-1", "https://tss-2"}

Rerun ==
    /\ pc = "done"
    /\ run < MaxRuns
    /\ \E u \in SecretUrls : env' = [env EXCEPT !["SECRET_SERVER_BASE_URL"] = Val(u)]
    /\ prevEnv' = env
    /\ start' = Append(start, [PLUGINS |-> PLUGINS, PLUGINS_CONFIG |-> PLUGINS_CONFIG,
                                loggers |-> loggers])
    /\ run' = run + 1
    /\ pc' = "debug"
    /\ UNCHANGED <<testing, bound, DEBUG, ALLOWED_HOSTS, DATABASES, loggers,
                   PLUGINS, PLUGINS_CONFIG, AUTH_LDAP_USER_SEARCH>>

Next ==
    \/ Debug \/ Misc \/ Database \/ Logging \/ PluginsInit
    \/ App \/ DataValidationEngine \/ DeviceOnboarding \/ Ldap
    \/ Ssot \/ DeviceOnboarding2 \/ SecretsProviders \/ Rerun

(* --------------------------- initial states ---------------------------- *)
PluginFlag ==
    [n \in {AppName, DVE, DevOnb, SSOT, SecProv} |->
        CASE n = AppName -> "NAUTOBOT_APP_ENABLED"
          [] n = DVE     -> "NAUTOBOT_DATA_VALIDATION_ENGINE_ENABLED"
          [] n = DevOnb  -> "NAUTOBOT_DEVICE_ONBOARDING_ENABLED"
          [] n = SSOT    -> "NAUTOBOT_SSOT_ENABLED"
          [] n = SecProv -> "NAUTOBOT_SECRETS_PROVIDERS_ENABLED"]

PluginNames == DOMAIN PluginFlag

EnvNames ==
    {PluginFlag[n] : n \in PluginNames} \cup
    {"NAUTOBOT_DEBUG", "NAUTOBOT_ALLOWED_HOSTS", "NAUTOBOT_DB_ENGINE", "NAUTOBOT_DB_PORT",
     "NAUTOBOT_DJANGO_AUTH_LDAP_ENABLED", "NAUTOBOT_AUTH_LDAP_SERVER_URI",
     "NAUTOBOT_AUTH_LDAP_USER_SEARCH_DN",
     "SECRET_SERVER_BASE_URL", "SECRET_SERVER_IS_CLOUD_BASED", "SECRET_SERVER_TENANT",
     "SECRET_SERVER_USERNAME", "SECRET_SERVER_PASSWORD", "SECRET_SERVER_TOKEN",
     "SECRET_SERVER_DOMAIN", "REQUESTS_CA_BUNDLE"}

(* an environment: the listed variables set, every other one absent *)
Environ(assigned) == [n \in EnvNames |-> IF n \in DOMAIN assigned THEN assigned[n] ELSE Unset]

(* character strings of length at most n over an alphabet *)
Strings(alphabet, n) == UNION {[1..k -> alphabet] : k \in 0..n}

NoDuplicates(s) == \A i, j \in 1..Len(s) : s[i] = s[j] => i = j

(* contents of PLUGINS / PLUGINS_CONFIG / LOGGING["loggers"] defined by an *)
(* earlier settings fragment                                               *)
PrePluginNames == {AppName, DVE, SecProv, "other_plugin"}

PrePlugins == {s \in Strings(PrePluginNames, MaxPre) : NoDuplicates(s)}

PreThycotic == thycotic_seetings(Environ([SECRET_SERVER_BASE_URL |-> Val("https://tss-0")]))

PreEntry(n, i) ==
    CASE n = AppName -> [foo |-> "bar"]
      [] n = DVE     -> EmptyMap
      [] n = DevOnb  -> [default_device_role |-> "router"]
      [] n = SSOT    -> [hide_example_jobs |-> FALSE]
      [] n = SecProv -> IF i = 1 THEN [custom |-> "x"] ELSE [thycotic |-> PreThycotic]

PreChoices == {ch \in [PluginNames -> 0..2] : \A n \in PluginNames : n # SecProv => ch[n] < 2}

PreConfigs == {[n \in {m \in PluginNames : ch[m] > 0} |-> PreEntry(n, ch[n])] : ch \in PreChoices}

PreLdapLogger == [handlers |-> <<"verbose_console">>, level |-> "WARNING"]

PreLoggers ==
    {fresh_loggers(FALSE), update(fresh_loggers(FALSE), LdapLogger, PreLdapLogger),
     update(fresh_loggers(FALSE), AppName, PreLdapLogger)}

InitWith(e, t, P, C, L, b) ==
    /\ env = e
    /\ testing = t
    /\ pc = "debug"
    /\ run = 1
    /\ bound = b
    /\ DEBUG = FALSE
    /\ ALLOWED_HOSTS = <<>>
    /\ DATABASES = EmptyMap
    /\ loggers = L
    /\ PLUGINS = P
    /\ PLUGINS_CONFIG = C
    /\ AUTH_LDAP_USER_SEARCH = None
    /\ start = <<[PLUGINS |-> P, PLUGINS_CONFIG |-> C, loggers |-> L]>>
    /\ prevEnv = e

AllBound == {"PLUGINS", "PLUGINS_CONFIG"}

(* plugin blocks: every combination of flags over every pre-populated     *)
(* PLUGINS and PLUGINS_CONFIG                                              *)
InitPlugins ==
    \E on \in SUBSET PluginNames, P \in PrePlugins, C \in PreConfigs, b \in SUBSET AllBound :
        /\ "PLUGINS" \notin b => P = <<>>
        /\ "PLUGINS_CONFIG" \notin b => C = EmptyMap
        /\ InitWith([n \in EnvNames |->
                        IF n \in {PluginFlag[m] : m \in on} THEN Val("True")
                        ELSE IF n = "SECRET_SERVER_BASE_URL" THEN Val("https://tss-1")
                        ELSE Unset],
                    FALSE, P, C, fresh_loggers(FALSE), b)

(* host allowlist *)
HostsCommaList == <<"a", ".", "c", "o", "m", ",", "b", ".", "c", "o", "m">>
HostsCommaSpaceList == <<"a", ".", "c", "o", "m", ",", " ", "b", ".", "c", "o", "m">>
HostAlphabet == {"a", "b", ",", " "}

InitHosts ==
    \E h \in {Unset} \cup {Val(x) : x \in Strings(HostAlphabet, MaxHostLen)
                                        \cup {HostsCommaList, HostsCommaSpaceList}} :
        InitWith(Environ([NAUTOBOT_ALLOWED_HOSTS |-> h]),
                 FALSE, <<>>, EmptyMap, fresh_loggers(FALSE), AllBound)

(* database engine and port *)
FlagValues == {Unset, Val("True"), Val("1"), Val("false"), Val("0")}

InitDatabase ==
    \E eng \in {Unset, Val(Postgres), Val(MySQL), Val("django.db.backends.sqlite3"), Val("mysql")},
       port \in {Unset, Val("5432"), Val("3307")},
       dbg \in FlagValues :
        InitWith(Environ([NAUTOBOT_DB_ENGINE |-> eng, NAUTOBOT_DB_PORT |-> port,
                          NAUTOBOT_DEBUG |-> dbg]),
                 FALSE, <<>>, EmptyMap, fresh_loggers(FALSE), AllBound)

(* LDAP block and the logger registry *)
UserSearchDnExample ==
    <<"o", "u", "=", "a", ",", "d", "c", "=", "x", ";", "o", "u", "=", "b", ",", "d", "c", "=", "x">>
DnAlphabet == {"a", ";", " ", "\t"}

InitLdap ==
    \E on \in {Unset, Val("True"), Val("false")},
       uri \in {Unset, Val(""), Val("ldap://dc1")},
       dn \in {Unset} \cup {Val(x) : x \in Strings(DnAlphabet, MaxDnLen) \cup {UserSearchDnExample}} :
        InitWith(Environ([NAUTOBOT_DJANGO_AUTH_LDAP_ENABLED |-> on,
                          NAUTOBOT_AUTH_LDAP_SERVER_URI |-> uri,
                          NAUTOBOT_AUTH_LDAP_USER_SEARCH_DN |-> dn]),
                 FALSE, <<>>, EmptyMap, fresh_loggers(FALSE), AllBound)

InitLoggers ==
    \E t \in BOOLEAN, L \in PreLoggers, dbg \in {Unset, Val("True")},
       app \in {Unset, Val("True")}, on \in {Unset, Val("True")} :
        InitWith(Environ([NAUTOBOT_DEBUG |-> dbg, NAUTOBOT_APP_ENABLED |-> app,
                          NAUTOBOT_DJANGO_AUTH_LDAP_ENABLED |-> on,
                          NAUTOBOT_AUTH_LDAP_SERVER_URI |-> Val("ldap://dc1")]),
                 t, <<>>, EmptyMap, L, AllBound)

(* every later block enabled, over recognised and unrecognised engines *)
InitAllEnabled ==
    \E eng \in {Unset, Val(MySQL), Val("django.db.backends.sqlite3"), Val("mysql")},
       port \in {Unset, Val("5432"), Val("3307")},
       t \in BOOLEAN, P \in PrePlugins :
        InitWith([n \in EnvNames |->
                     IF n \in {PluginFlag[m] : m \in PluginNames}
                               \cup {"NAUTOBOT_DEBUG", "NAUTOBOT_DJANGO_AUTH_LDAP_ENABLED"}
                     THEN Val("True")
                     ELSE IF n = "NAUTOBOT_DB_ENGINE" THEN eng
                     ELSE IF n = "NAUTOBOT_DB_PORT" THEN port
                     ELSE IF n = "NAUTOBOT_AUTH_LDAP_SERVER_URI" THEN Val("ldap://dc1")
                     ELSE IF n = "NAUTOBOT_AUTH_LDAP_USER_SEARCH_DN" THEN Val(UserSearchDnExample)
                     ELSE Unset],
                 t, P, EmptyMap, fresh_loggers(FALSE), AllBound)

Init == InitPlugins \/ InitHosts \/ InitDatabase \/ InitLdap \/ InitLoggers \/ InitAllEnabled

Spec == Init /\ [][Next]_vars

(* ============================ properties =============================== *)

enabled(n) == is_truthy_getenv(env, PluginFlag[n])
Occurrences(s, x) == Cardinality({i \in 1..Len(s) : s[i] = x})
IsPrefix(s, t) == Len(s) <= Len(t) /\ \A i \in 1..Len(s) : s[i] = t[i]
Without(m, k) == [x \in (DOMAIN m) \ {k} |-> m[x]]
Finished(r) == pc = "done" /\ run = r

(* C1: a second execution with the same environment, against the PLUGINS  *)
(* and PLUGINS_CONFIG left by the first, leaves PLUGINS unchanged and      *)
(* PLUGINS_CONFIG unchanged apart from the thycotic entry of               *)
(* nautobot_secrets_providers.                                             *)
C1_Idempotent ==
    (Finished(2) /\ env = prevEnv) =>
        /\ PLUGINS = start[2].PLUGINS
        /\ DOMAIN PLUGINS_CONFIG = DOMAIN start[2].PLUGINS_CONFIG
        /\ \A n \in DOMAIN PLUGINS_CONFIG :
              IF n = SecProv
              THEN Without(PLUGINS_CONFIG[n], "thycotic")
                       = Without(start[2].PLUGINS_CONFIG[n], "thycotic")
              ELSE PLUGINS_CONFIG[n] = start[2].PLUGINS_CONFIG[n]

C1_Witness ==
    /\ Finished(2) /\ env = prevEnv
    /\ \A n \in PluginNames : enabled(n)
    /\ start[1].PLUGINS = <<DVE>>
    /\ DOMAIN start[1].PLUGINS_CONFIG = {SecProv}
    /\ Len(PLUGINS) = 6

(* C2 as stated: after two executions with the secrets provider enabled    *)
(* and different SECRET_SERVER_* values, the thycotic entry holds the      *)
(* second execution's values and the plugin is listed exactly once.        *)
C2_SecondRunWins ==
    (Finished(2) /\ enabled(SecProv)
       /\ env["SECRET_SERVER_BASE_URL"] # prevEnv["SECRET_SERVER_BASE_URL"]) =>
        /\ PLUGINS_CONFIG[SecProv]["thycotic"] = thycotic_seetings(env)
        /\ Occurrences(PLUGINS, SecProv) = 1

(* C2 amended: the thycotic entry after the second execution is the one    *)
(* the first execution left: the first execution's values when there was   *)
(* no thycotic entry before it, the earlier entry otherwise; the plugin is *)
(* listed exactly once.                                                    *)
C2_FirstRunKept ==
    (Finished(2) /\ enabled(SecProv)
       /\ env["SECRET_SERVER_BASE_URL"] # prevEnv["SECRET_SERVER_BASE_URL"]) =>
        /\ PLUGINS_CONFIG[SecProv]["thycotic"] = start[2].PLUGINS_CONFIG[SecProv]["thycotic"]
        /\ PLUGINS_CONFIG[SecProv]["thycotic"] =
              IF SecProv \in DOMAIN start[1].PLUGINS_CONFIG
                 /\ "thycotic" \in DOMAIN start[1].PLUGINS_CONFIG[SecProv]
              THEN start[1].PLUGINS_CONFIG[SecProv]["thycotic"]
              ELSE thycotic_seetings(prevEnv)
        /\ Occurrences(PLUGINS, SecProv) = 1

C2_Witness ==
    /\ Finished(2) /\ enabled(SecProv)
    /\ env["SECRET_SERVER_BASE_URL"] = Val("https://tss-2")
    /\ prevEnv["SECRET_SERVER_BASE_URL"] = Val("https://tss-1")
    /\ SecProv \notin DOMAIN start[1].PLUGINS_CONFIG
    /\ PLUGINS_CONFIG[SecProv]["thycotic"]["base_url"] = "https://tss-1"

(* C3 as stated: after an execution, every plugin whose *_ENABLED flag is  *)
(* true is a member of PLUGINS and has an entry in PLUGINS_CONFIG.         *)
C3_EnabledRegistered ==
    pc = "done" =>
        \A n \in PluginNames :
            enabled(n) => n \in Range(PLUGINS) /\ n \in DOMAIN PLUGINS_CONFIG

(* C4 as stated: a PLUGINS list without duplicates stays without           *)
(* duplicates over any number of executions, and every execution keeps the *)
(* list it started from as a prefix.                                       *)
C4_UniqueAppendOnly ==
    NoDuplicates(start[1].PLUGINS) =>
        /\ NoDuplicates(PLUGINS)
        /\ IsPrefix(start[run].PLUGINS, PLUGINS)

(* C5 as stated: the App block and the LDAP block keep the configuration   *)
(* of every logger name already present in LOGGING["loggers"].             *)
C5_LoggersKept ==
    [][(pc \in {"app", "ldap"}) =>
          (\A n \in DOMAIN loggers : n \in DOMAIN loggers' /\ loggers'[n] = loggers[n])]_vars

C5_Witness ==
    /\ pc = "ssot" /\ testing
    /\ LdapLogger \in DOMAIN start[1].loggers
    /\ loggers[LdapLogger] # start[1].loggers[LdapLogger]

(* C6 as stated: ALLOWED_HOSTS is the sequence of hostnames listed in      *)
(* NAUTOBOT_ALLOWED_HOSTS, separated by "," or by ", "; no element is      *)
(* empty or contains a comma.                                              *)
HostSeparators == {",", " "}

CommaSeparated(s) ==
    /\ s # <<>>
    /\ s[1] \notin HostSeparators /\ s[Len(s)] \notin HostSeparators
    /\ \A i \in 2..Len(s) :
          /\ s[i] = "," => s[i-1] \notin HostSeparators
          /\ s[i] = " " => s[i-1] = ","

HostnameStarts(s) ==
    {i \in 1..Len(s) : s[i] \notin HostSeparators /\ (i = 1 \/ s[i-1] \in HostSeparators)}

HostnameAt(s, i) ==
    SubSeq(s, i, CHOOSE j \in i..Len(s) :
                    /\ \A k \in i..j : s[k] \notin HostSeparators
                    /\ (j = Len(s) \/ s[j+1] \in HostSeparators))

C6_AllowedHosts ==
    ("ALLOWED_HOSTS" \in bound /\ env["NAUTOBOT_ALLOWED_HOSTS"].set
        /\ CommaSeparated(env["NAUTOBOT_ALLOWED_HOSTS"].val)) =>
        LET s == env["NAUTOBOT_ALLOWED_HOSTS"].val
        IN  /\ Len(ALLOWED_HOSTS) = Cardinality(HostnameStarts(s))
            /\ \A n \in 1..Len(ALLOWED_HOSTS) :
                  /\ ALLOWED_HOSTS[n] # <<>>
                  /\ "," \notin Range(ALLOWED_HOSTS[n])
                  /\ \E i \in HostnameStarts(s) :
                        /\ Cardinality({j \in HostnameStarts(s) : j <= i}) = n
                        /\ ALLOWED_HOSTS[n] = HostnameAt(s, i)

C6_Witness ==
    /\ pc = "done"
    /\ env["NAUTOBOT_ALLOWED_HOSTS"] = Val(HostsCommaSpaceList)
    /\ ALLOWED_HOSTS = << <<"a", ".", "c", "o", "m">>, <<>>, <<"b", ".", "c", "o", "m">> >>

(* C7: with NAUTOBOT_DB_PORT unset the port is "5432" for an unset or      *)
(* PostgreSQL engine and "3306" for MySQL; with any other engine the       *)
(* execution fails in the database block and DATABASES is never bound.     *)
C7_DatabasePort ==
    LET eng == env["NAUTOBOT_DB_ENGINE"]
        known == ~eng.set \/ eng.val \in {Postgres, MySQL}
    IN  /\ ~known => pc \in {"debug", "misc", "database", "failed"} /\ "DATABASES" \notin bound
        /\ known => pc # "failed"
        /\ (known /\ "DATABASES" \in bound /\ ~env["NAUTOBOT_DB_PORT"].set) =>
              DATABASES["default"]["PORT"] =
                  IF eng.set /\ eng.val = MySQL THEN "3306" ELSE "5432"

C7_Witness ==
    /\ pc = "failed"
    /\ env["NAUTOBOT_DB_ENGINE"] = Val("django.db.backends.sqlite3")
    /\ ~env["NAUTOBOT_DB_PORT"].set
    /\ DATABASES = EmptyMap

(* C8: with LDAP enabled and a server URI, AUTH_LDAP_USER_SEARCH is None   *)
(* when NAUTOBOT_AUTH_LDAP_USER_SEARCH_DN is unset or empty; otherwise it  *)
(* is a union of one search per ";"-separated segment, in order, whose     *)
(* base DN is the segment without its surrounding whitespace.              *)
Semicolons(s) == {i \in 1..Len(s) : s[i] = ";"}

(* the n-th ";"-separated segment of s, by the positions of the separators *)
Segment(s, n) ==
    LET nth(k) == IF k = 0 THEN 0
                  ELSE IF k > Cardinality(Semicolons(s)) THEN Len(s) + 1
                  ELSE CHOOSE i \in Semicolons(s) :
                          Cardinality({j \in Semicolons(s) : j <= i}) = k
    IN  SubSeq(s, nth(n-1) + 1, nth(n) - 1)

(* s between its first and last non-whitespace character *)
Trimmed(s) ==
    LET solid == {i \in 1..Len(s) : s[i] \notin Whitespace}
    IN  IF solid = {} THEN <<>>
        ELSE SubSeq(s, CHOOSE i \in solid : \A j \in solid : i <= j,
                       CHOOSE i \in solid : \A j \in solid : j <= i)

C8_UserSearch ==
    "AUTH_LDAP_USER_SEARCH" \in bound =>
        LET dn == env["NAUTOBOT_AUTH_LDAP_USER_SEARCH_DN"]
        IN  IF ~dn.set \/ dn.val = <<>>
            THEN AUTH_LDAP_USER_SEARCH = None
            ELSE /\ AUTH_LDAP_USER_SEARCH.kind = "LDAPSearchUnion"
                 /\ Len(AUTH_LDAP_USER_SEARCH.searches) = Cardinality(Semicolons(dn.val)) + 1
                 /\ \A n \in 1..Len(AUTH_LDAP_USER_SEARCH.searches) :
                       AUTH_LDAP_USER_SEARCH.searches[n].base_dn = Trimmed(Segment(dn.val, n))
                 /\ dn.val = UserSearchDnExample =>
                       Len(AUTH_LDAP_USER_SEARCH.searches) = 2

C8_Witness ==
    /\ pc = "done"
    /\ env["NAUTOBOT_AUTH_LDAP_USER_SEARCH_DN"] = Val(<<" ", "a", ";", "a">>)
    /\ "AUTH_LDAP_USER_SEARCH" \in bound
    /\ AUTH_LDAP_USER_SEARCH.kind = "LDAPSearchUnion"
    /\ Len(AUTH_LDAP_USER_SEARCH.searches) = 2
    /\ AUTH_LDAP_USER_SEARCH.searches[1].base_dn = <<"a">>

(* C9: every plugin that already has an entry in PLUGINS_CONFIG when an    *)
(* execution begins keeps that entry unchanged, except that a              *)
(* nautobot_secrets_providers entry without "thycotic" may gain that one   *)
(* key, its other keys unchanged.                                          *)
C9_ExistingEntriesKept ==
    \A n \in DOMAIN start[run].PLUGINS_CONFIG :
        /\ n \in DOMAIN PLUGINS_CONFIG
        /\ \/ PLUGINS_CONFIG[n] = start[run].PLUGINS_CONFIG[n]
           \/ /\ n = SecProv
              /\ "thycotic" \notin DOMAIN start[run].PLUGINS_CONFIG[n]
              /\ DOMAIN PLUGINS_CONFIG[n] = DOMAIN start[run].PLUGINS_CONFIG[n] \cup {"thycotic"}
              /\ Without(PLUGINS_CONFIG[n], "thycotic") = start[run].PLUGINS_CONFIG[n]

C9_Witness ==
    /\ Finished(1)
    /\ \A n \in PluginNames : enabled(n)
    /\ DOMAIN start[1].PLUGINS_CONFIG = PluginNames
    /\ start[1].PLUGINS_CONFIG[SecProv] = [custom |-> "x"]
    /\ DOMAIN PLUGINS_CONFIG[SecProv] = {"custom", "thycotic"}
    /\ PLUGINS_CONFIG[DevOnb] = [default_device_role |-> "router"]

(* C10: the second device-onboarding block leaves PLUGINS and              *)
(* PLUGINS_CONFIG as it found them; when the flag is true and              *)
(* PLUGINS_CONFIG had no nautobot_device_onboarding entry at the start,    *)
(* the final entry is the first block's option set, without                *)
(* skip_manufacturer_on_update.                                            *)
C10_SecondBlockInert ==
    /\ [][(pc = "onboarding2") => (PLUGINS' = PLUGINS /\ PLUGINS_CONFIG' = PLUGINS_CONFIG)]_vars
    /\ []((pc = "done" /\ enabled(DevOnb) /\ DevOnb \notin DOMAIN start[1].PLUGINS_CONFIG) =>
              /\ PLUGINS_CONFIG[DevOnb] = onboarding_settings_1
              /\ "skip_manufacturer_on_update" \notin DOMAIN PLUGINS_CONFIG[DevOnb])

C10_Witness ==
    /\ pc = "secrets" /\ enabled(DevOnb)
    /\ DevOnb \notin DOMAIN start[1].PLUGINS_CONFIG
    /\ DevOnb \in Range(PLUGINS)
    /\ PLUGINS_CONFIG[DevOnb] = onboarding_settings_1

(* C11: with an engine other than PostgreSQL and MySQL the execution fails *)
(* in the database block whether or not NAUTOBOT_DB_PORT is set, and when  *)
(* it has failed no later block has been applied: the logger registry,     *)
(* PLUGINS and PLUGINS_CONFIG are as the execution found them and the LDAP *)
(* settings are not bound.                                                 *)
UnrecognizedEngine ==
    env["NAUTOBOT_DB_ENGINE"].set /\ env["NAUTOBOT_DB_ENGINE"].val \notin {Postgres, MySQL}

C11_PortDoesNotRescue ==
    UnrecognizedEngine =>
        /\ pc \notin {"logging", "plugins_init", "app", "dve", "onboarding", "ldap",
                      "ssot", "onboarding2", "secrets", "done"}
        /\ pc = "failed" =>
              /\ loggers = start[run].loggers
              /\ PLUGINS = start[run].PLUGINS
              /\ PLUGINS_CONFIG = start[run].PLUGINS_CONFIG
              /\ bound \cap {"DATABASES", "AUTH_LDAP_USER_SEARCH"} = {}
              /\ AUTH_LDAP_USER_SEARCH = None

C11_Witness ==
    /\ pc = "failed"
    /\ env["NAUTOBOT_DB_ENGINE"] = Val("django.db.backends.sqlite3")
    /\ env["NAUTOBOT_DB_PORT"] = Val("5432")
    /\ \A n \in PluginNames : enabled(n)
    /\ is_truthy_getenv(env, "NAUTOBOT_DJANGO_AUTH_LDAP_ENABLED")
    /\ is_truthy_getenv(env, "NAUTOBOT_DEBUG")
    /\ ~testing
    /\ PLUGINS = <<>> /\ PLUGINS_CONFIG = EmptyMap
    /\ loggers = fresh_loggers(FALSE)

====
